---- MODULE Spec2Model ----
(***************************************************************************)
(* A model of simple_agent: CalculatorTool._run (tools.py), the safe       *)
(* arithmetic evaluator, and the question loop of main() (agent_demo.py).  *)
(*                                                                         *)
(* Text is a sequence of one-character strings.  The warning sign U+2757   *)
(* that starts every error message is written Marker.  A result is a       *)
(* sequence of strings whose concatenation is the returned text.           *)
(***************************************************************************)
EXTENDS Integers, Sequences, FiniteSets, TLC

VARIABLES expression, text, node, value, result, pc, steps, applied,
          qi, outcomes, printed, exitStatus, mpc

calcVars == <<expression, text, node, value, result, pc, steps, applied>>
mainVars == <<qi, outcomes, printed, exitStatus, mpc>>
vars == <<expression, text, node, value, result, pc, steps, applied,
          qi, outcomes, printed, exitStatus, mpc>>

(***************************************************************************)
(* Bounds of the model.                                                    *)
(***************************************************************************)
\* Longest arithmetic input, counted in pieces, that Init enumerates.
MaxPieces == 5
\* Longest input of words, quotes and blanks, counted in pieces.
MaxWords == 4
\* Largest numerator or denominator the model computes exactly; a value
\* beyond it is kept as an unevaluated term (Python's own integers are
\* unbounded and its floats have 53 bits).
MaxMag == 30000

(***************************************************************************)
(* Characters.                                                             *)
(***************************************************************************)
Marker == "<U+2757>"

DigitChars == {"0", "1", "2", "3", "4", "5", "6", "7", "8", "9"}

DigitVal(c) ==
  CASE c = "0" -> 0 [] c = "1" -> 1 [] c = "2" -> 2 [] c = "3" -> 3
    [] c = "4" -> 4 [] c = "5" -> 5 [] c = "6" -> 6 [] c = "7" -> 7
    [] c = "8" -> 8 [] c = "9" -> 9

DigitChar(n) == <<"0", "1", "2", "3", "4", "5", "6", "7", "8", "9">>[n + 1]

\* The characters \s matches among those the model's inputs use.
SpaceChars == {" ", "\t", "\n"}

\* The class [0-9+\-*/().\s\*] of the whitelist.
WhitelistChars == DigitChars \cup {"+", "-", "*", "/", "(", ")", "."} \cup SpaceChars

\* The characters str.strip("'\"") removes.
QuoteChars == {"'", "\""}

UpperLetters == <<"A", "B", "C", "D", "E", "F", "G", "H", "I", "J", "K", "L", "M",
                  "N", "O", "P", "Q", "R", "S", "T", "U", "V", "W", "X", "Y", "Z">>
LowerLetters == <<"a", "b", "c", "d", "e", "f", "g", "h", "i", "j", "k", "l", "m",
                  "n", "o", "p", "q", "r", "s", "t", "u", "v", "w", "x", "y", "z">>

\* str.lower() on one character.
LowerChar(c) ==
  IF \E i \in 1..26 : UpperLetters[i] = c
    THEN LowerLetters[CHOOSE i \in 1..26 : UpperLetters[i] = c]
    ELSE c

\* str.lower()
Lower(s) == [i \in 1..Len(s) |-> LowerChar(s[i])]

\* expression.strip("'\""): quotes are removed from both ends only.
Strip(s) ==
  LET keep == {i \in 1..Len(s) : s[i] \notin QuoteChars}
  IN IF keep = {} THEN <<>>
     ELSE LET lo == CHOOSE i \in keep : \A j \in keep : i <= j
              hi == CHOOSE i \in keep : \A j \in keep : j <= i
          IN SubSeq(s, lo, hi)

\* "sub in s" for two texts.
Contains(s, sub) ==
  \E i \in 1..(Len(s) - Len(sub) + 1) : SubSeq(s, i, i + Len(sub) - 1) = sub

SqrtWord == <<"s", "q", "r", "t">>
SquareRootWords == <<"s", "q", "u", "a", "r", "e", " ", "r", "o", "o", "t">>

\* The condition of the square-root shortcut.
IsSqrtRequest(s) == Contains(Lower(s), SquareRootWords) \/ Contains(Lower(s), SqrtWord)

\* The whitelist with * for +: the empty text matches.
FullMatchStar(s) == \A i \in 1..Len(s) : s[i] \in WhitelistChars

\* re.fullmatch(r"[0-9+\-*/().\s\*]+", s): one or more characters of the class.
FullMatch(s) == Len(s) >= 1 /\ \A i \in 1..Len(s) : s[i] \in WhitelistChars

\* The last run of digits instead of the first.
LastDigitRun(s) ==
  LET ds == {i \in 1..Len(s) : s[i] \in DigitChars}
  IN IF ds = {} THEN <<>>
     ELSE LET hi == CHOOSE i \in ds : \A j \in ds : j <= i
              lo == CHOOSE i \in 1..hi :
                      /\ \A j \in i..hi : s[j] \in DigitChars
                      /\ (i = 1 \/ s[i - 1] \notin DigitChars)
          IN SubSeq(s, lo, hi)

\* re.search(r'\d+', s).group(): the leftmost, longest run of digits; <<>> when
\* there is none (the search returns None).
FirstDigitRun(s) ==
  LET ds == {i \in 1..Len(s) : s[i] \in DigitChars}
  IN IF ds = {} THEN <<>>
     ELSE LET lo == CHOOSE i \in ds : \A j \in ds : i <= j
              hi == CHOOSE i \in lo..Len(s) :
                      /\ \A j \in lo..i : s[j] \in DigitChars
                      /\ (i = Len(s) \/ s[i + 1] \notin DigitChars)
          IN SubSeq(s, lo, hi)

(***************************************************************************)
(* Numbers.  A value is a record [k, f, n, d, nz, t]:                      *)
(*   k   "int", "float" or "complex", the Python type;                     *)
(*   f   "exact":   the value is n/d (d = 1 for an int; for a float d is a *)
(*                  power of two, so that the binary64 holds n/d itself);  *)
(*       "rounded": the binary64 nearest to n/d, d not a power of two;     *)
(*       "opaque":  a value the model does not compute (beyond MaxMag, an  *)
(*                  irrational power, arithmetic on a rounded value), kept *)
(*                  as the text t of the term that produces it;            *)
(*   nz  the float is -0.0 (n = 0).                                        *)
(* An opaque operand is taken to be non-zero, except that x - x is zero.   *)
(***************************************************************************)
Abs(i) == IF i < 0 THEN -i ELSE i

Range(f) == {f[i] : i \in DOMAIN f}

RECURSIVE Gcd(_, _)
Gcd(a, b) == IF b = 0 THEN a ELSE Gcd(b, a % b)

RECURSIVE IsPow2(_)
IsPow2(d) == IF d = 1 THEN TRUE ELSE IF d % 2 # 0 THEN FALSE ELSE IsPow2(d \div 2)

\* d has no prime factor but 2 and 5: n/d has a finite decimal expansion.
RECURSIVE IsDecimal(_)
IsDecimal(d) ==
  IF d = 1 THEN TRUE
  ELSE IF d % 2 = 0 THEN IsDecimal(d \div 2)
  ELSE IF d % 5 = 0 THEN IsDecimal(d \div 5)
  ELSE FALSE

\* The decimal digits of a natural number.
RECURSIVE Digits(_)
Digits(n) == IF n < 10 THEN <<DigitChar(n)>> ELSE Append(Digits(n \div 10), DigitChar(n % 10))

\* The digits after the decimal point of r/d, r < d, d with a finite expansion.
RECURSIVE FracDigits(_, _)
FracDigits(r, d) ==
  IF r = 0 THEN <<>>
  ELSE <<DigitChar((r * 10) \div d)>> \o FracDigits((r * 10) % d, d)

IntV(n) == [k |-> "int", f |-> "exact", n |-> n, d |-> 1, nz |-> FALSE, t |-> <<>>]

Opaque(k, t) == [k |-> k, f |-> "opaque", n |-> 0, d |-> 1, nz |-> FALSE, t |-> t]

SignText(neg) == IF neg THEN <<"-">> ELSE <<>>

\* The float n/d (d # 0); negzero is the sign of the result when it is zero.
FloatV(n, d, negzero) ==
  LET g == Gcd(Abs(n), Abs(d))
      nn == (IF d < 0 THEN -n ELSE n) \div g
      dd == Abs(d) \div g
  IN IF Abs(nn) > MaxMag \/ dd > MaxMag
       THEN Opaque("float", <<"(">> \o SignText(nn < 0) \o Digits(Abs(nn)) \o <<"/">>
                               \o Digits(dd) \o <<")">>)
       ELSE [k |-> "float", f |-> IF IsPow2(dd) THEN "exact" ELSE "rounded",
             n |-> nn, d |-> dd, nz |-> (nn = 0 /\ negzero), t |-> <<>>]

\* The int n, kept as its text when it is beyond MaxMag.
IntOrOpaque(n) ==
  IF Abs(n) > MaxMag THEN Opaque("int", SignText(n < 0) \o Digits(Abs(n))) ELSE IntV(n)

\* str(v): int and float as Python prints them.  A float below 1e-4 (printed
\* with an exponent) or without a finite expansion keeps the text of n/d.
Str(v) ==
  IF v.f = "opaque" THEN v.t
  ELSE IF v.k = "int" THEN SignText(v.n < 0) \o Digits(Abs(v.n))
  ELSE IF IsDecimal(v.d) /\ (v.n = 0 \/ Abs(v.n) * 10000 >= v.d)
    THEN LET q == Abs(v.n) \div v.d
             r == Abs(v.n) % v.d
         IN SignText(v.n < 0 \/ v.nz) \o Digits(q) \o <<".">>
              \o (IF r = 0 THEN <<"0">> ELSE FracDigits(r, v.d))
  ELSE <<"float(">> \o SignText(v.n < 0) \o Digits(Abs(v.n)) \o <<"/">>
         \o Digits(v.d) \o <<")">>

\* The text of the term "a op b".
Term(op, a, b) == <<"(">> \o Str(a) \o <<op>> \o Str(b) \o <<")">>

\* The type of the result of + - * on a and b.
JoinKind(a, b) ==
  IF a.k = "complex" \/ b.k = "complex" THEN "complex"
  ELSE IF a.k = "float" \/ b.k = "float" THEN "float"
  ELSE "int"

IsExact(v) == v.f = "exact"
SignBit(v) == v.n < 0 \/ v.nz

\* A value or an exception: err is "" or the exception's message.
Ok(v) == [err |-> "", v |-> v]
Raise(msg) == [err |-> msg, v |-> IntV(0)]

\* operator.neg
Neg(a) ==
  IF a.f = "opaque" THEN Opaque(a.k, <<"(-">> \o a.t \o <<")">>)
  ELSE IF a.f = "rounded" THEN [a EXCEPT !.n = -a.n]
  ELSE IF a.k = "int" THEN IntV(-a.n)
  ELSE [a EXCEPT !.n = -a.n, !.nz = (a.n = 0 /\ ~a.nz)]

\* operator.add
AddV(a, b) ==
  IF ~IsExact(a) \/ ~IsExact(b) THEN Opaque(JoinKind(a, b), Term("+", a, b))
  ELSE IF JoinKind(a, b) = "int" THEN IntOrOpaque(a.n + b.n)
  ELSE FloatV(a.n * b.d + b.n * a.d, a.d * b.d, a.nz /\ b.nz)

\* operator.sub
SubV(a, b) ==
  IF ~IsExact(a) \/ ~IsExact(b)
    THEN IF a = b /\ a.k = "int" THEN IntV(0)
         ELSE IF a = b /\ a.k = "float" THEN FloatV(0, 1, FALSE)
         ELSE Opaque(JoinKind(a, b), Term("-", a, b))
  ELSE IF JoinKind(a, b) = "int" THEN IntOrOpaque(a.n - b.n)
  ELSE FloatV(a.n * b.d - b.n * a.d, a.d * b.d, a.nz /\ ~b.nz)

\* operator.mul
MulV(a, b) ==
  IF ~IsExact(a) \/ ~IsExact(b) THEN Opaque(JoinKind(a, b), Term("*", a, b))
  ELSE IF JoinKind(a, b) = "int" THEN IntOrOpaque(a.n * b.n)
  ELSE FloatV(a.n * b.n, a.d * b.d, SignBit(a) # SignBit(b))

\* operator.truediv: a zero divisor raises ZeroDivisionError.
DivV(a, b) ==
  IF b.f # "opaque" /\ b.n = 0 THEN Raise("division by zero")
  ELSE IF ~IsExact(a) \/ ~IsExact(b)
    THEN Ok(Opaque(IF JoinKind(a, b) = "complex" THEN "complex" ELSE "float",
                   Term("/", a, b)))
  ELSE Ok(FloatV(a.n * b.d, a.d * b.n, SignBit(a) # SignBit(b)))

\* acc * m ** e for naturals, saturated at MaxMag + 1.
RECURSIVE PowAcc(_, _, _)
PowAcc(m, e, acc) ==
  IF e = 0 \/ m = 1 THEN acc
  ELSE IF m = 0 THEN 0
  ELSE IF acc * m > MaxMag THEN MaxMag + 1
  ELSE PowAcc(m, e - 1, acc * m)

PowCap(m, e) == PowAcc(m, e, 1)

\* The natural r with r * r = n, or -1 when n is not a perfect square.
RECURSIVE RootFrom(_, _)
RootFrom(n, r) ==
  IF r * r = n THEN r ELSE IF r * r > n THEN -1 ELSE RootFrom(n, r + 1)

\* operator.pow, as int.__pow__ and float.__pow__ compute it.
PowV(a, b) ==
  LET opq(k) == Ok(Opaque(k, Term("**", a, b)))
      e == Abs(b.n)
      odd == b.d = 1 /\ e % 2 = 1
      pn == PowCap(Abs(a.n), e)
      pd == PowCap(a.d, e)
      sign == IF a.n < 0 /\ odd THEN -1 ELSE 1
  IN
  IF a.k = "complex" \/ b.k = "complex" THEN opq("complex")
  ELSE IF IsExact(b) /\ b.n = 0
    THEN IF a.k = "int" /\ b.k = "int" THEN Ok(IntV(1)) ELSE Ok(FloatV(1, 1, FALSE))
  ELSE IF a.k = "int" /\ b.k = "int" /\ IsExact(a) /\ IsExact(b) /\ b.n > 0
    THEN IF pn > MaxMag THEN opq("int") ELSE Ok(IntV(sign * pn))
  ELSE IF a.f # "opaque" /\ a.n = 0 /\ b.f # "opaque" /\ b.n < 0
    THEN Raise("0.0 cannot be raised to a negative power")
  ELSE IF ~IsExact(a) \/ ~IsExact(b)
    THEN IF a.f # "opaque" /\ a.n = 0 /\ b.f # "opaque"
           THEN Ok(FloatV(0, 1, FALSE))
         ELSE IF a.f # "opaque" /\ a.n < 0 /\ b.f # "opaque" /\ b.d # 1
           THEN opq("complex")
         ELSE opq(IF a.k = "int" /\ b.k = "int" THEN "int" ELSE "float")
  ELSE IF a.n = 0 THEN Ok(FloatV(0, 1, a.nz /\ odd))
  ELSE IF b.d = 1
    THEN IF pn > MaxMag \/ pd > MaxMag THEN opq("float")
         ELSE IF b.n > 0 THEN Ok(FloatV(sign * pn, pd, FALSE))
         ELSE IF IsPow2(pn) THEN Ok(FloatV(sign * pd, pn, FALSE))
         ELSE opq("float")
  ELSE IF a.n < 0 THEN opq("complex")
  ELSE IF b.n = 1 /\ b.d = 2 /\ RootFrom(a.n, 0) >= 0 /\ RootFrom(a.d, 0) >= 0
    THEN Ok(FloatV(RootFrom(a.n, 0), RootFrom(a.d, 0), FALSE))
  ELSE opq("float")

(***************************************************************************)
(* ast.parse(expression, mode='eval') on a text of whitelisted characters: *)
(* Python's tokenizer and the part of its grammar those characters reach.  *)
(***************************************************************************)
Tok(t, v) == [t |-> t, v |-> v]
OpTok(t) == Tok(t, IntV(0))

\* The value of a run of digits, saturated at MaxMag + 1.
RECURSIVE DigitsValue(_, _)
DigitsValue(ds, acc) ==
  IF ds = <<>> THEN acc
  ELSE IF acc * 10 + DigitVal(Head(ds)) > MaxMag THEN MaxMag + 1
  ELSE DigitsValue(Tail(ds), acc * 10 + DigitVal(Head(ds)))

\* A run of digits without its leading zeros ("0" for a run of zeros).
RECURSIVE StripZeros(_)
StripZeros(ds) ==
  IF Len(ds) > 1 /\ Head(ds) = "0" THEN StripZeros(Tail(ds)) ELSE ds

\* int(ds) for a non-empty run of digits.
IntLit(ds) ==
  IF DigitsValue(ds, 0) > MaxMag THEN Opaque("int", StripZeros(ds))
  ELSE IntV(DigitsValue(ds, 0))

\* The float literal ip "." fp (either part may be empty, not both).
FloatLit(ip, fp) ==
  LET n == DigitsValue(ip \o fp, 0)
      d == PowCap(10, Len(fp))
  IN IF n > MaxMag \/ d > MaxMag THEN Opaque("float", ip \o <<".">> \o fp)
     ELSE FloatV(n, d, FALSE)

\* The index after the run of characters of set cs that starts at i.
RECURSIVE RunEnd(_, _, _)
RunEnd(s, i, cs) == IF i <= Len(s) /\ s[i] \in cs THEN RunEnd(s, i + 1, cs) ELSE i

CharAt(s, i) == IF i >= 1 /\ i <= Len(s) THEN s[i] ELSE ""

TokFail == [ok |-> FALSE, toks |-> <<>>]

\* The tokens of s from index i on.  depth counts the open parentheses, inside
\* which a newline is no token; bol is the start of a line, where a line of
\* blanks is skipped and any other indentation is an error.  A decimal integer
\* with a leading zero, an unmatched ")" and an unclosed "(" are errors.
RECURSIVE Scan(_, _, _, _, _)
Scan(s, i, depth, bol, toks) ==
  LET c == CharAt(s, i)
      j == RunEnd(s, i, {" ", "\t"})
      e1 == RunEnd(s, i, DigitChars)
      e2 == RunEnd(s, e1 + 1, DigitChars)
  IN
  IF bol /\ depth = 0
    THEN IF j > Len(s) THEN (IF j > i THEN TokFail ELSE [ok |-> TRUE, toks |-> toks])
         ELSE IF s[j] = "\n" THEN Scan(s, j + 1, 0, TRUE, toks)
         ELSE IF j > i THEN TokFail
         ELSE Scan(s, i, depth, FALSE, toks)
  ELSE IF i > Len(s)
    THEN IF depth > 0 THEN TokFail ELSE [ok |-> TRUE, toks |-> toks]
  ELSE IF c \in {" ", "\t"} THEN Scan(s, i + 1, depth, FALSE, toks)
  ELSE IF c = "\n"
    THEN IF depth > 0 THEN Scan(s, i + 1, depth, FALSE, toks)
         ELSE Scan(s, i + 1, 0, TRUE, Append(toks, OpTok("NEWLINE")))
  ELSE IF c \in DigitChars
    THEN IF CharAt(s, e1) = "."
           THEN Scan(s, e2, depth, FALSE,
                     Append(toks, Tok("NUM", FloatLit(SubSeq(s, i, e1 - 1),
                                                      SubSeq(s, e1 + 1, e2 - 1)))))
         ELSE IF c = "0" /\ StripZeros(SubSeq(s, i, e1 - 1)) # <<"0">> THEN TokFail
         ELSE Scan(s, e1, depth, FALSE, Append(toks, Tok("NUM", IntLit(SubSeq(s, i, e1 - 1)))))
  ELSE IF c = "." /\ CharAt(s, i + 1) \in DigitChars
    THEN Scan(s, e2, depth, FALSE,
              Append(toks, Tok("NUM", FloatLit(<<>>, SubSeq(s, i + 1, e2 - 1)))))
  ELSE IF c = "." /\ CharAt(s, i + 1) = "." /\ CharAt(s, i + 2) = "."
    THEN Scan(s, i + 3, depth, FALSE, Append(toks, OpTok("ELLIPSIS")))
  ELSE IF c = "*" /\ CharAt(s, i + 1) = "*"
    THEN Scan(s, i + 2, depth, FALSE, Append(toks, OpTok("**")))
  ELSE IF c = "/" /\ CharAt(s, i + 1) = "/"
    THEN Scan(s, i + 2, depth, FALSE, Append(toks, OpTok("//")))
  ELSE IF c = "(" THEN Scan(s, i + 1, depth + 1, FALSE, Append(toks, OpTok("(")))
  ELSE IF c = ")"
    THEN IF depth = 0 THEN TokFail
         ELSE Scan(s, i + 1, depth - 1, FALSE, Append(toks, OpTok(")")))
  ELSE IF c \in {"+", "-", "*", "/", "."}
    THEN Scan(s, i + 1, depth, FALSE, Append(toks, OpTok(c)))
  ELSE TokFail

Tokenize(s) == Scan(s, 1, 0, TRUE, <<>>)

\* Syntax-tree nodes: [type, op, n, kids], type the ast class of the node.
NoNode == [type |-> "None", op |-> "", n |-> IntV(0), kids |-> <<>>]
Num(v) == [type |-> "Num", op |-> "", n |-> v, kids |-> <<>>]
BinOp(op, l, r) == [type |-> "BinOp", op |-> op, n |-> IntV(0), kids |-> <<l, r>>]
UnaryOp(op, x) == [type |-> "UnaryOp", op |-> op, n |-> IntV(0), kids |-> <<x>>]
Other(type, kids) == [type |-> type, op |-> "", n |-> IntV(0), kids |-> kids]

\* The ast operator class of a token.
BinOpName(t) ==
  CASE t = "+" -> "Add" [] t = "-" -> "Sub" [] t = "*" -> "Mult" [] t = "/" -> "Div"
    [] t = "//" -> "FloorDiv" [] t = "**" -> "Pow"
UnaryOpName(t) == IF t = "-" THEN "USub" ELSE "UAdd"

\* A parse: the node and the index of the next token, or a failure.
Parsed(nd, p) == [ok |-> TRUE, node |-> nd, p |-> p]
ParseFail == [ok |-> FALSE, node |-> NoNode, p |-> 0]
TokAt(toks, p) == IF p >= 1 /\ p <= Len(toks) THEN toks[p].t ELSE "END"

\* A binary node from the parse of its left operand and that of its right one.
Join(op, l, r) ==
  IF l.ok /\ r.ok THEN Parsed(BinOp(op, l.node, r.node), r.p) ELSE ParseFail

\* A unary node from the parse of its operand.
Prefix(op, r) == IF r.ok THEN Parsed(UnaryOp(op, r.node), r.p) ELSE ParseFail

RECURSIVE ParseSum(_, _), SumRest(_, _), ParseTerm(_, _), TermRest(_, _),
          ParseFactor(_, _), ParsePower(_, _), ParsePrimary(_, _),
          CallRest(_, _), ParseAtom(_, _)

\* sum: sum ('+' | '-') term | term
ParseSum(toks, p) == SumRest(toks, ParseTerm(toks, p))

\* The terms that follow the sum l, joined from left to right.
SumRest(toks, l) ==
  IF l.ok /\ TokAt(toks, l.p) \in {"+", "-"}
    THEN SumRest(toks, Join(BinOpName(TokAt(toks, l.p)), l, ParseTerm(toks, l.p + 1)))
  ELSE l

\* term: term ('*' | '/' | '//') factor | factor
ParseTerm(toks, p) == TermRest(toks, ParseFactor(toks, p))

\* The factors that follow the term l, joined from left to right.
TermRest(toks, l) ==
  IF l.ok /\ TokAt(toks, l.p) \in {"*", "/", "//"}
    THEN TermRest(toks, Join(BinOpName(TokAt(toks, l.p)), l, ParseFactor(toks, l.p + 1)))
  ELSE l

\* The primary b with the unary operator op bound to it alone, and the power
\* that may follow.
TightRest(toks, op, b) ==
  IF b.ok /\ TokAt(toks, b.p) = "**"
    THEN Join("Pow", Prefix(op, b), ParseFactor(toks, b.p + 1))
  ELSE Prefix(op, b)

\* The unary operator bound to the primary alone, tighter than '**'.
ParseFactorTight(toks, p) ==
  IF TokAt(toks, p) \in {"+", "-"}
    THEN TightRest(toks, UnaryOpName(TokAt(toks, p)), ParsePrimary(toks, p + 1))
  ELSE ParsePower(toks, p)

\* factor: ('+' | '-') factor | power
ParseFactor(toks, p) ==
  IF TokAt(toks, p) \in {"+", "-"}
    THEN Prefix(UnaryOpName(TokAt(toks, p)), ParseFactor(toks, p + 1))
  ELSE ParsePower(toks, p)

\* '**' taken as a left-associative operator.
RECURSIVE PowerRestLeft(_, _)
PowerRestLeft(toks, l) ==
  IF l.ok /\ TokAt(toks, l.p) = "**"
    THEN PowerRestLeft(toks, Join("Pow", l, ParsePrimary(toks, l.p + 1)))
  ELSE l

ParsePowerLeft(toks, p) == PowerRestLeft(toks, ParsePrimary(toks, p))

\* The power of the primary b, if '**' follows it.
PowerRest(toks, b) ==
  IF b.ok /\ TokAt(toks, b.p) = "**"
    THEN Join("Pow", b, ParseFactor(toks, b.p + 1))
  ELSE b

\* power: primary '**' factor | primary
ParsePower(toks, p) == PowerRest(toks, ParsePrimary(toks, p))

\* primary: primary '(' [arguments] ')' | atom
ParsePrimary(toks, p) == CallRest(toks, ParseAtom(toks, p))

\* The call of f with the argument a, parsed up to its ')'; kind is "" for an
\* expression, "Starred" for '*' expression, "keyword" for '**' expression.
Call(toks, f, kind, a) ==
  IF a.ok /\ TokAt(toks, a.p) = ")"
    THEN Parsed(Other("Call", <<f.node, IF kind = "" THEN a.node
                                        ELSE Other(kind, <<a.node>>)>>), a.p + 1)
  ELSE ParseFail

\* The calls that follow the primary f; without a comma there is at most one
\* argument: an expression, '*' expression or '**' expression.
CallRest(toks, f) ==
  IF ~f.ok \/ TokAt(toks, f.p) # "(" THEN f
  ELSE IF TokAt(toks, f.p + 1) = ")"
    THEN CallRest(toks, Parsed(Other("Call", <<f.node>>), f.p + 2))
  ELSE IF TokAt(toks, f.p + 1) = "*"
    THEN CallRest(toks, Call(toks, f, "Starred", ParseSum(toks, f.p + 2)))
  ELSE IF TokAt(toks, f.p + 1) = "**"
    THEN CallRest(toks, Call(toks, f, "keyword", ParseSum(toks, f.p + 2)))
  ELSE CallRest(toks, Call(toks, f, "", ParseSum(toks, f.p + 1)))

\* A parenthesized expression r, up to its ')'.
Group(toks, r) ==
  IF r.ok /\ TokAt(toks, r.p) = ")" THEN Parsed(r.node, r.p + 1) ELSE ParseFail

\* atom: NUMBER | '...' | '(' ')' | '(' expression ')'
ParseAtom(toks, p) ==
  IF TokAt(toks, p) = "NUM" THEN Parsed(Num(toks[p].v), p + 1)
  ELSE IF TokAt(toks, p) = "ELLIPSIS" THEN Parsed(Other("Constant", <<>>), p + 1)
  ELSE IF TokAt(toks, p) = "("
    THEN IF TokAt(toks, p + 1) = ")" THEN Parsed(Other("Tuple", <<>>), p + 2)
         ELSE Group(toks, ParseSum(toks, p + 1))
  ELSE ParseFail

\* The root, an ast.Expression, of the expression r when only NEWLINE tokens
\* follow it.
Root(toks, r) ==
  IF r.ok /\ \A q \in r.p..Len(toks) : toks[q].t = "NEWLINE"
    THEN Parsed(Other("Expression", <<r.node>>), r.p)
  ELSE ParseFail

\* The parse of a token sequence.
ParseTokens(tk) == IF tk.ok THEN Root(tk.toks, ParseSum(tk.toks, 1)) ELSE ParseFail

\* eval: expression NEWLINE* ENDMARKER.
ParseEval(s) == ParseTokens(Tokenize(s))

(***************************************************************************)
(* eval_expr: the recursive visitor of _run.                               *)
(***************************************************************************)
\* The keys of the operators table, by their ast class names.
operators == {"Add", "Sub", "Mult", "Div", "USub", "Pow"}

\* operators[type(node.op)](...): the function the table holds for op.
ApplyBin(op, a, b) ==
  CASE op = "Add" -> Ok(AddV(a, b))
    [] op = "Sub" -> Ok(SubV(a, b))
    [] op = "Mult" -> Ok(MulV(a, b))
    [] op = "Div" -> DivV(a, b)
    [] op = "Pow" -> PowV(a, b)
    [] OTHER -> Raise("KeyError")

ApplyUnary(op, a) == IF op = "USub" THEN Ok(Neg(a)) ELSE Raise("KeyError")

\* The outcome of a visit: err is <<>> or the message of the exception raised,
\* v the value returned, applied the operators applied so far, in order.
Returned(v, ap) == [err |-> <<>>, v |-> v, applied |-> ap]
Raised(msg, ap) == [err |-> msg, v |-> IntV(0), applied |-> ap]

RECURSIVE eval_expr(_)

\* The membership check made after the children have been evaluated.
eval_expr_late(nd) ==
  IF nd.type \in {"BinOp", "UnaryOp"} /\ nd.op \notin operators
    THEN LET l == eval_expr(nd.kids[1])
             r == eval_expr(nd.kids[Len(nd.kids)])
         IN IF l.err # <<>> THEN l
            ELSE IF r.err # <<>> THEN Raised(r.err, l.applied \o r.applied)
            ELSE Raised(<<"Unsupported operation: ", nd.op>>, l.applied \o r.applied)
  ELSE IF nd.type = "BinOp"
    THEN LET l == eval_expr(nd.kids[1])
         IN IF l.err # <<>> THEN l
            ELSE LET r == eval_expr(nd.kids[2])
                     ap == l.applied \o r.applied
                     x == ApplyBin(nd.op, l.v, r.v)
                 IN IF r.err # <<>> THEN Raised(r.err, ap)
                    ELSE IF x.err # "" THEN Raised(<<x.err>>, Append(ap, nd.op))
                    ELSE Returned(x.v, Append(ap, nd.op))
  ELSE IF nd.type = "UnaryOp"
    THEN LET o == eval_expr(nd.kids[1])
             x == ApplyUnary(nd.op, o.v)
         IN IF o.err # <<>> THEN o
            ELSE IF x.err # "" THEN Raised(<<x.err>>, Append(o.applied, nd.op))
            ELSE Returned(x.v, Append(o.applied, nd.op))
  ELSE IF nd.type = "Expression" THEN eval_expr(nd.kids[1])
  ELSE IF nd.type = "Num" THEN Returned(nd.n, <<>>)
  ELSE Raised(<<"Unsupported node type: ", nd.type>>, <<>>)

\* No membership check: '//' is taken for '/', and the unary '+' for nothing.
eval_expr_ungated(nd) ==
  IF nd.type = "BinOp"
    THEN LET l == eval_expr(nd.kids[1])
         IN IF l.err # <<>> THEN l
            ELSE LET r == eval_expr(nd.kids[2])
                     ap == l.applied \o r.applied
                     x == ApplyBin(IF nd.op = "FloorDiv" THEN "Div" ELSE nd.op, l.v, r.v)
                 IN IF r.err # <<>> THEN Raised(r.err, ap)
                    ELSE IF x.err # "" THEN Raised(<<x.err>>, Append(ap, nd.op))
                    ELSE Returned(x.v, Append(ap, nd.op))
  ELSE IF nd.type = "UnaryOp"
    THEN LET o == eval_expr(nd.kids[1])
             x == IF nd.op = "UAdd" THEN Ok(o.v) ELSE ApplyUnary(nd.op, o.v)
         IN IF o.err # <<>> THEN o
            ELSE IF x.err # "" THEN Raised(<<x.err>>, Append(o.applied, nd.op))
            ELSE Returned(x.v, Append(o.applied, nd.op))
  ELSE IF nd.type = "Expression" THEN eval_expr(nd.kids[1])
  ELSE IF nd.type = "Num" THEN Returned(nd.n, <<>>)
  ELSE Raised(<<"Unsupported node type: ", nd.type>>, <<>>)

eval_expr(nd) ==
  IF nd.type = "Num" THEN Returned(nd.n, <<>>)
  ELSE IF nd.type = "BinOp"
    THEN IF nd.op \notin operators
           THEN Raised(<<"Unsupported operation: ", nd.op>>, <<>>)
         ELSE LET l == eval_expr(nd.kids[1])
              IN IF l.err # <<>> THEN l
                 ELSE LET r == eval_expr(nd.kids[2])
                          ap == l.applied \o r.applied
                          x == ApplyBin(nd.op, l.v, r.v)
                      IN IF r.err # <<>> THEN Raised(r.err, ap)
                         ELSE IF x.err # "" THEN Raised(<<x.err>>, Append(ap, nd.op))
                         ELSE Returned(x.v, Append(ap, nd.op))
  ELSE IF nd.type = "UnaryOp"
    THEN IF nd.op \notin operators
           THEN Raised(<<"Unsupported operation: ", nd.op>>, <<>>)
         ELSE LET o == eval_expr(nd.kids[1])
                  x == ApplyUnary(nd.op, o.v)
              IN IF o.err # <<>> THEN o
                 ELSE IF x.err # "" THEN Raised(<<x.err>>, Append(o.applied, nd.op))
                 ELSE Returned(x.v, Append(o.applied, nd.op))
  ELSE IF nd.type = "Expression" THEN eval_expr(nd.kids[1])
  ELSE Raised(<<"Unsupported node type: ", nd.type>>, <<>>)

(***************************************************************************)
(* The texts _run returns.                                                 *)
(***************************************************************************)
InvalidCharacters == <<Marker, " Invalid characters in expression.">>
NoNumber == <<Marker, " Could not identify a number to calculate square root.">>
\* The handler of line 105 without the marker.
ErrorEvaluatingUnmarked(msg) == <<" Error evaluating expression: ">> \o msg

ErrorEvaluating(msg) == <<Marker, " Error evaluating expression: ">> \o msg

\* The description of a SyntaxError of ast.parse (its wording is CPython's).
SyntaxErrorText == <<"invalid syntax">>

Half == FloatV(1, 2, FALSE)

\* The square-root shortcut on a text that asks for a square root.
SqrtResult(s) ==
  IF FirstDigitRun(s) = <<>> THEN NoNumber
  ELSE LET r == PowV(IntLit(FirstDigitRun(s)), Half)
       IN IF r.err # "" THEN ErrorEvaluating(<<r.err>>) ELSE Str(r.v)

\* CalculatorTool._run as a function of its argument.
Run(e) ==
  LET s == Strip(e)
      p == ParseEval(s)
      r == eval_expr(p.node)
  IN IF IsSqrtRequest(s) THEN SqrtResult(s)
     ELSE IF ~FullMatch(s) THEN InvalidCharacters
     ELSE IF ~p.ok THEN ErrorEvaluating(SyntaxErrorText)
     ELSE IF r.err # <<>> THEN ErrorEvaluating(r.err)
     ELSE Str(r.v)

(***************************************************************************)
(* Inputs.  _run accepts any string; Init enumerates every concatenation   *)
(* of a bounded number of pieces, and the expressions that the tool's      *)
(* description and the demo's questions name.                              *)
(***************************************************************************)
\* The concatenation of a sequence of pieces.
RECURSIVE Concat(_)
Concat(ps) == IF ps = <<>> THEN <<>> ELSE Head(ps) \o Concat(Tail(ps))

\* e is a concatenation of at most max pieces.
IsTextOf(e, pieces, max) ==
  \E n \in 0..max : \E ps \in [1..n -> pieces] : e = Concat(ps)

\* Arithmetic: digits, the operator characters and the parentheses.
ArithPieces ==
  {<<"0">>, <<"2">>, <<"3">>, <<"+">>, <<"-">>, <<"*">>, <<"*", "*">>, <<"/">>,
   <<"(">>, <<")">>}

\* Requests in words, quotes, blanks and characters outside the whitelist.
WordPieces ==
  {<<"s", "q", "r", "t">>, <<"S", "q", "u", "a", "r", "e", " ", "R", "o", "o", "t">>,
   <<"'">>, <<"\"">>, <<"4">>, <<"9">>, <<".">>, <<"-">>, <<" ">>, <<"\t">>, <<"\n">>,
   <<"^">>, <<"(">>, <<")">>}

Samples ==
  {<<"1", "6", " ", "*", " ", "4", " ", "+", " ", "3">>,
   <<"1", "7", " ", "*", " ", "(", "2", "4", " ", "-", " ", "5", ")">>,
   <<"1", "4", "4", " ", "*", "*", " ", "0", ".", "5">>,
   <<"s", "q", "r", "t", "(", "1", "4", "4", ")">>,
   <<"s", "q", "r", "t", "(", "1", "4", "4", ")", " ", "+", " ", "1">>,
   <<"s", "q", "u", "a", "r", "e", " ", "r", "o", "o", "t", " ", "o", "f", " ", "1", "4", "4">>,
   <<"5", " ", "/", " ", "0">>,
   <<"2", " ", "^", " ", "3">>,
   <<"2", " ", "*", "*", " ", "3", " ", "*", "*", " ", "2">>,
   <<"8", " ", "-", " ", "3", " ", "-", " ", "2">>,
   <<"2", " ", "+", " ", "3", " ", "*", " ", "4">>,
   <<"(", "-", "2", ")", " ", "*", "*", " ", "2">>,
   <<"8", " ", "/", "/", " ", "2">>,
   <<"+", "5">>,
   <<"(", "2", "/", "0", ")", "/", "/", "2">>,
   <<"(", "2", "/", "0", ")", "+", "(", "2", "/", "/", "3", ")">>,
   <<"1", "\t", "+", "\n">>}

(***************************************************************************)
(* CalculatorTool._run, step by step.  pc is the position in the body,     *)
(* steps the statements executed so far.                                   *)
(***************************************************************************)
Idle ==
  /\ qi = 0 /\ outcomes = <<>> /\ printed = <<>> /\ exitStatus = -1 /\ mpc = "idle"

CalcInit(pieces, max) ==
  /\ (IsTextOf(expression, pieces, max) \/ expression \in Samples)
  /\ text = <<>> /\ node = NoNode /\ value = IntV(0) /\ result = <<>>
  /\ pc = "start" /\ steps = <<>> /\ applied = <<>>
  /\ Idle

\* Line 44: strip the quotes.
Normalize ==
  /\ pc = "start"
  /\ text' = Strip(expression)
  /\ pc' = "stripped"
  /\ steps' = Append(steps, "normalize")
  /\ UNCHANGED <<expression, node, value, result, applied>>

\* Lines 47-55: the square-root shortcut returns.
SqrtShortcut ==
  /\ pc = "stripped"
  /\ IsSqrtRequest(text)
  /\ result' = SqrtResult(text)
  /\ pc' = "done"
  /\ steps' = Append(steps, "shortcut")
  /\ UNCHANGED <<expression, text, node, value, applied>>

\* Lines 58-59: the character whitelist.
Whitelist ==
  /\ pc = "stripped"
  /\ ~IsSqrtRequest(text)
  /\ steps' = Append(steps, "whitelist")
  /\ IF FullMatch(text)
       THEN pc' = "parse" /\ UNCHANGED result
       ELSE pc' = "done" /\ result' = InvalidCharacters
  /\ UNCHANGED <<expression, text, node, value, applied>>

\* Line 62: ast.parse; a SyntaxError reaches the handler of line 105.
Parse ==
  /\ pc = "parse"
  /\ steps' = Append(steps, "parse")
  /\ LET p == ParseEval(text)
     IN IF p.ok
          THEN node' = p.node /\ pc' = "eval" /\ UNCHANGED result
          ELSE pc' = "done" /\ result' = ErrorEvaluating(SyntaxErrorText)
                 /\ UNCHANGED node
  /\ UNCHANGED <<expression, text, value, applied>>

\* Line 103: eval_expr(node); an exception reaches the handler of line 105.
Evaluate ==
  /\ pc = "eval"
  /\ steps' = Append(steps, "eval")
  /\ LET r == eval_expr(node)
     IN /\ applied' = r.applied
        /\ IF r.err = <<>>
             THEN value' = r.v /\ pc' = "format" /\ UNCHANGED result
             ELSE pc' = "done" /\ result' = ErrorEvaluating(r.err) /\ UNCHANGED value
  /\ UNCHANGED <<expression, text, node>>

\* Line 104: return str(result).
Format ==
  /\ pc = "format"
  /\ steps' = Append(steps, "format")
  /\ result' = Str(value)
  /\ pc' = "done"
  /\ UNCHANGED <<expression, text, node, value, applied>>

CalcNext ==
  \/ (Normalize /\ UNCHANGED mainVars)
  \/ (SqrtShortcut /\ UNCHANGED mainVars)
  \/ (Whitelist /\ UNCHANGED mainVars)
  \/ (Parse /\ UNCHANGED mainVars)
  \/ (Evaluate /\ UNCHANGED mainVars)
  \/ (Format /\ UNCHANGED mainVars)

Init == CalcInit(ArithPieces, MaxPieces)
Next == CalcNext
Spec == Init /\ [][Next]_vars

WordInit == CalcInit(WordPieces, MaxWords)
WordSpec == WordInit /\ [][Next]_vars

(***************************************************************************)
(* main() of agent_demo.py: the API key check, the setup, the loop over    *)
(* the questions and the statistics.  What agent.invoke does for a         *)
(* question is an input: it returns, or raises an exception.               *)
(***************************************************************************)
\* The questions list of line 122.
NumQuestions == 4

\* The classes an exception of each class is an instance of (openai 1.x:
\* AuthenticationError and RateLimitError are APIStatusErrors, and
\* APIStatusError and APIConnectionError both derive from APIError).
Superclasses(c) ==
  CASE c = "AuthenticationError" ->
         {"AuthenticationError", "APIStatusError", "APIError", "OpenAIError", "Exception"}
    [] c = "RateLimitError" ->
         {"RateLimitError", "APIStatusError", "APIError", "OpenAIError", "Exception"}
    [] c = "APIConnectionError" ->
         {"APIConnectionError", "APIError", "OpenAIError", "Exception"}
    [] c = "APIError" -> {"APIError", "OpenAIError", "Exception"}
    [] OTHER -> {c, "Exception"}

\* What agent.invoke can do for a question.
InvokeOutcomes ==
  {"ok", "AuthenticationError", "RateLimitError", "APIError", "APIConnectionError",
   "ValueError"}

\* The except clauses of lines 137-151, in order, and what each prints.
HandlerChain ==
  <<"AuthenticationError", "RateLimitError", "APIError", "APIConnectionError",
    "Exception">>
HandlerLine ==
  <<"Error: Authentication failed. Check your OpenAI API key.",
    "Error: OpenAI API rate limit exceeded. Please try again later.",
    "OpenAI API Error: {e}",
    "Error: OpenAI service is currently unavailable. Please try again later.",
    "An unexpected error occurred: {e}">>

\* The clause that handles an exception of class c: the first that matches.
Handler(c) ==
  CHOOSE i \in 1..Len(HandlerChain) :
    /\ HandlerChain[i] \in Superclasses(c)
    /\ \A j \in 1..(i - 1) : HandlerChain[j] \notin Superclasses(c)

\* The rate limit clause ending with break too.
BreaksOnRateLimit(h) == h \in {1, 2}

\* The clauses that end with break; the others end with continue.
Breaks(h) == h = 1

MainInit ==
  /\ expression = <<>> /\ text = <<>> /\ node = NoNode /\ value = IntV(0)
  /\ result = <<>> /\ pc = "idle" /\ steps = <<>> /\ applied = <<>>
  /\ qi = 0 /\ outcomes = <<>> /\ printed = <<>> /\ exitStatus = -1 /\ mpc = "start"

\* Lines 33-49: the header, and sys.exit(1) when OPENAI_API_KEY is not set.
CheckKey ==
  /\ mpc = "start"
  /\ \E keySet \in BOOLEAN :
       IF keySet
         THEN /\ printed' = printed \o <<"Simple Agent Demo">>
              /\ mpc' = "setup"
              /\ UNCHANGED exitStatus
         ELSE /\ printed' = printed \o <<"Simple Agent Demo",
                              "Error: OPENAI_API_KEY environment variable is not set.">>
              /\ mpc' = "exited"
              /\ exitStatus' = 1
  /\ UNCHANGED <<qi, outcomes>>

\* Lines 51-127 with the handlers of lines 166-171: an exception of the setup
\* ends main with status 1.
Setup ==
  /\ mpc = "setup"
  /\ \E o \in {"ok", "AuthenticationError", "ValueError"} :
       IF o = "ok"
         THEN /\ mpc' = "loop" /\ qi' = 1
              /\ UNCHANGED <<printed, exitStatus>>
         ELSE /\ printed' = Append(printed,
                   IF "AuthenticationError" \in Superclasses(o)
                     THEN "Error: Authentication failed. Check your OpenAI API key."
                     ELSE "An unexpected error occurred during setup: {e}")
              /\ mpc' = "exited" /\ exitStatus' = 1
              /\ UNCHANGED qi
  /\ UNCHANGED outcomes

\* Lines 129-151: one iteration of the loop, for the question at index qi.
Ask ==
  /\ mpc = "loop"
  /\ qi <= NumQuestions
  /\ \E o \in InvokeOutcomes :
       LET line == IF o = "ok" THEN "Answer" ELSE HandlerLine[Handler(o)]
           stop == o # "ok" /\ Breaks(Handler(o))
       IN /\ printed' = printed \o <<"Question", line>>
          /\ outcomes' = Append(outcomes, [q |-> qi, o |-> o, line |-> line])
          /\ qi' = qi + 1
          /\ mpc' = IF stop \/ qi = NumQuestions THEN "stats" ELSE "loop"
  /\ UNCHANGED exitStatus

\* Lines 153-164: the statistics; main returns.
Statistics ==
  /\ mpc = "stats"
  /\ printed' = Append(printed, "Statistics:")
  /\ mpc' = "done"
  /\ exitStatus' = 0
  /\ UNCHANGED <<qi, outcomes>>

MainNext ==
  \/ (CheckKey /\ UNCHANGED calcVars)
  \/ (Setup /\ UNCHANGED calcVars)
  \/ (Ask /\ UNCHANGED calcVars)
  \/ (Statistics /\ UNCHANGED calcVars)

\* main runs to its end: no statement of it waits for anything but the return
\* of the call it makes.
MainSpec == MainInit /\ [][MainNext]_vars /\ WF_vars(MainNext)

(***************************************************************************)
(* Properties of CalculatorTool._run.                                      *)
(***************************************************************************)
\* The elements of the text str() gives for a number.
NumericChunks ==
  DigitChars \cup {"-", ".", "(", ")", "(-", "float(", "+", "*", "/", "**"}

IsNumericText(r) ==
  /\ r # <<>>
  /\ \A i \in 1..Len(r) : r[i] \in NumericChunks
  /\ \E i \in 1..Len(r) : r[i] \in DigitChars

IsErrorText(r) ==
  /\ Len(r) >= 2
  /\ r[1] = Marker
  /\ r[2] \in {" Invalid characters in expression.",
               " Could not identify a number to calculate square root.",
               " Error evaluating expression: "}

\* C1: every call ends at one of the return statements of _run, whatever the
\* input: an exception of the parser or of the evaluation ends it in the handler
\* of line 105.  What it returns is the value of the function for the input,
\* and is either the text of a number or a message that starts with the marker,
\* never both and never neither.
C1_StringResult ==
  /\ pc \in {"start", "stripped", "parse", "eval", "format", "done"}
  /\ (pc = "done"
       => /\ steps[Len(steps)] \in {"shortcut", "whitelist", "parse", "eval", "format"}
          /\ result = Run(expression)
          /\ (IsErrorText(result) # IsNumericText(result)))

\* A call that ended in the handler of line 105 after an arithmetic failure.
C1_Witness ==
  /\ pc = "done"
  /\ steps = <<"normalize", "whitelist", "parse", "eval">>
  /\ result = ErrorEvaluating(<<"division by zero">>)

\* The reference evaluator of C2, on the tokens of an expression of numeric
\* literals, parentheses and the binary + - * / **: the operator applied last
\* is the rightmost + or - outside parentheses; without one, the rightmost * or
\* /; without one, the leftmost **.  ok is FALSE for any other token sequence.
DepthAt(toks, i) ==
  Cardinality({j \in 1..(i - 1) : toks[j].t = "("})
    - Cardinality({j \in 1..(i - 1) : toks[j].t = ")"})

TopLevel(toks, ops) == {i \in 1..Len(toks) : toks[i].t \in ops /\ DepthAt(toks, i) = 0}

Max(S) == CHOOSE i \in S : \A j \in S : j <= i
Min(S) == CHOOSE i \in S : \A j \in S : i <= j

RefFail == [ok |-> FALSE, err |-> "", v |-> IntV(0)]

RECURSIVE RefValue(_)
RefValue(toks) ==
  LET adds == TopLevel(toks, {"+", "-"})
      muls == TopLevel(toks, {"*", "/"})
      pows == TopLevel(toks, {"**"})
      at == IF adds # {} THEN Max(adds)
            ELSE IF muls # {} THEN Max(muls)
            ELSE IF pows # {} THEN Min(pows) ELSE 0
      l == RefValue(SubSeq(toks, 1, at - 1))
      r == RefValue(SubSeq(toks, at + 1, Len(toks)))
      x == ApplyBin(BinOpName(toks[at].t), l.v, r.v)
  IN IF toks = <<>> THEN RefFail
     ELSE IF at # 0
       THEN IF ~l.ok \/ ~r.ok THEN RefFail
            ELSE IF l.err # "" THEN l
            ELSE IF r.err # "" THEN r
            ELSE [ok |-> TRUE, err |-> x.err, v |-> x.v]
     ELSE IF Len(toks) = 1
       THEN IF toks[1].t = "NUM" THEN [ok |-> TRUE, err |-> "", v |-> toks[1].v]
            ELSE RefFail
     ELSE IF /\ toks[1].t = "(" /\ toks[Len(toks)].t = ")"
             /\ \A i \in 2..Len(toks) : DepthAt(toks, i) > 0
       THEN RefValue(SubSeq(toks, 2, Len(toks) - 1))
     ELSE RefFail

\* The reference value of a text: that of its tokens, when it has tokens.
RefOf(s) == IF Tokenize(s).ok THEN RefValue(Tokenize(s).toks) ELSE RefFail

\* C2: for a whitelisted text that is an expression of numeric literals,
\* parentheses and the binary + - * / **, _run returns the text of the value
\* the reference evaluator computes (** right-associative and above * and /,
\* which are left-associative and above the left-associative + and -).
C2_ReferenceValue ==
  (pc = "done" /\ FullMatch(text) /\ ~IsSqrtRequest(text)
     /\ RefOf(text).ok /\ RefOf(text).err = "")
    => /\ result = Str(RefOf(text).v)
       /\ steps = <<"normalize", "whitelist", "parse", "eval", "format">>

\* 2**3**2 has been evaluated to 512, not to 64.
C2_Witness ==
  /\ pc = "done"
  /\ expression = <<"2", "*", "*", "3", "*", "*", "2">>
  /\ RefOf(text).ok
  /\ result = <<"5", "1", "2">>

\* The characters the claim C3 names as the whitelist: \s is not among them,
\* the space is.
SpaceOnlyChars == DigitChars \cup {"+", "-", "*", "/", "(", ")", ".", " "}

\* C3: a text that is no square-root request and holds a character other than
\* a digit, an operator character, a parenthesis, the point or the space gets
\* the "Invalid characters" message, and is not parsed.
C3_OutsideSpaceSetRejected ==
  (pc = "done" /\ ~IsSqrtRequest(text)
     /\ \E i \in 1..Len(text) : text[i] \notin SpaceOnlyChars)
    => /\ result = InvalidCharacters
       /\ steps = <<"normalize", "whitelist">>

\* A run of digits of s with no digit before it: the leftmost one.
IsLeftmostRun(s, lo, hi) ==
  /\ 1 <= lo /\ lo <= hi /\ hi <= Len(s)
  /\ \A i \in 1..(lo - 1) : s[i] \notin DigitChars
  /\ \A i \in lo..hi : s[i] \in DigitChars
  /\ (hi = Len(s) \/ s[hi + 1] \notin DigitChars)

HasDigit(s) == \E i \in 1..Len(s) : s[i] \in DigitChars

\* C4: a square-root request is answered by the shortcut alone, before the
\* whitelist and the parser: with a digit in the text the result is the text of
\* n ** 0.5 for n the leftmost run of digits, without one it is the "Could not
\* identify a number" message, and it is never the "Invalid characters" one.
C4_SqrtShortcut ==
  (pc = "done" /\ IsSqrtRequest(Strip(expression)))
    => /\ steps = <<"normalize", "shortcut">>
       /\ result # InvalidCharacters
       /\ (~HasDigit(text) => result = NoNumber)
       /\ \A lo, hi \in 1..Len(text) :
            IsLeftmostRun(text, lo, hi)
              => result = Str(PowV(IntLit(SubSeq(text, lo, hi)), Half).v)

\* "sqrt4^9": two runs of digits and a character outside the whitelist.
C4_Witness ==
  /\ pc = "done"
  /\ expression = <<"s", "q", "r", "t", "4", "^", "9">>
  /\ result = <<"2", ".", "0">>

\* A text that is one numeric literal.
IsLiteralText(s) ==
  /\ s # <<>>
  /\ \A i \in 1..Len(s) : s[i] \in DigitChars \cup {"."}
  /\ Tokenize(s).ok
  /\ Len(Tokenize(s).toks) = 1
  /\ Tokenize(s).toks[1].t = "NUM"

\* e is "-a**b" for two literals a and b, with "**" at index i.
IsNegPower(e, i) ==
  /\ 2 < i /\ i + 1 < Len(e)
  /\ e[1] = "-" /\ e[i] = "*" /\ e[i + 1] = "*"
  /\ IsLiteralText(SubSeq(e, 2, i - 1))
  /\ IsLiteralText(SubSeq(e, i + 2, Len(e)))

\* C5 as claimed: the unary minus is applied before the power, so that "-a**b"
\* gives what "(-a)**b" gives.
C5_NegationBeforePower ==
  \A i \in 1..Len(expression) :
    (pc = "done" /\ IsNegPower(expression, i))
      => result = Run(<<"(", "-">> \o SubSeq(expression, 2, i - 1) \o <<")", "*", "*">>
                        \o SubSeq(expression, i + 2, Len(expression)))

\* C5 as amended: the power is applied before the unary minus on its left, so
\* that "-a**b" gives what "-(a**b)" gives.
C5_PowerBeforeNegation ==
  \A i \in 1..Len(expression) :
    (pc = "done" /\ IsNegPower(expression, i))
      => result = Run(<<"-", "(">> \o SubSeq(expression, 2, Len(expression)) \o <<")">>)

\* -2**2 has been evaluated to -4.
C5_Witness ==
  /\ pc = "done"
  /\ expression = <<"-", "2", "*", "*", "2">>
  /\ result = <<"-", "4">>

\* C6: an input of quote characters only, the empty input included, is empty
\* once stripped and gets the "Invalid characters" message from the whitelist.
C6_EmptyIsInvalid ==
  (pc = "done" /\ \A i \in 1..Len(expression) : expression[i] \in QuoteChars)
    => /\ text = <<>>
       /\ result = InvalidCharacters
       /\ steps = <<"normalize", "whitelist">>

\* The input '" has been rejected.
C6_Witness ==
  /\ pc = "done"
  /\ expression = <<"'", "\"">>
  /\ result = InvalidCharacters

\* The first operator outside the table that a walk of the tree in the order of
\* eval_expr meets (a node, then its children from left to right), "" if none.
\* A Call, a Tuple and a Constant are not entered.
RECURSIVE FirstUnsupported(_)
FirstUnsupported(nd) ==
  IF nd.type = "Expression" THEN FirstUnsupported(nd.kids[1])
  ELSE IF nd.type \notin {"BinOp", "UnaryOp"} THEN ""
  ELSE IF nd.op \notin operators THEN nd.op
  ELSE IF FirstUnsupported(nd.kids[1]) # "" THEN FirstUnsupported(nd.kids[1])
  ELSE IF Len(nd.kids) = 2 THEN FirstUnsupported(nd.kids[2])
  ELSE ""

UnsupportedOperation(op) == ErrorEvaluating(<<"Unsupported operation: ", op>>)

\* The operators of a tree in the order a complete evaluation applies them.
RECURSIVE PostOps(_)
PostOps(nd) ==
  IF nd.type = "BinOp" THEN Append(PostOps(nd.kids[1]) \o PostOps(nd.kids[2]), nd.op)
  ELSE IF nd.type = "UnaryOp" THEN Append(PostOps(nd.kids[1]), nd.op)
  ELSE IF nd.type = "Expression" THEN PostOps(nd.kids[1])
  ELSE <<>>

\* The operators an evaluation applies before it reaches the first operator
\* outside the table: those of the subtrees to the left of the path to it.
RECURSIVE OpsBefore(_)
OpsBefore(nd) ==
  IF nd.type = "Expression" THEN OpsBefore(nd.kids[1])
  ELSE IF nd.type \notin {"BinOp", "UnaryOp"} \/ nd.op \notin operators THEN <<>>
  ELSE IF FirstUnsupported(nd.kids[1]) # "" THEN OpsBefore(nd.kids[1])
  ELSE IF nd.type = "BinOp" THEN PostOps(nd.kids[1]) \o OpsBefore(nd.kids[2])
  ELSE <<>>

IsPrefix(a, b) == Len(a) <= Len(b) /\ SubSeq(b, 1, Len(a)) = a

\* The messages of the exceptions that end an evaluation before it reaches an
\* operator: an arithmetic failure, or a node that is no operator and no number.
IsEarlierFailure(r) ==
  /\ Len(r) >= 3 /\ r[1] = Marker /\ r[2] = " Error evaluating expression: "
  /\ r[3] \in {"division by zero", "0.0 cannot be raised to a negative power",
               "Unsupported node type: "}

\* C7: when the tree that was parsed holds an operator outside the table, the
\* result is the message that names the first such operator the evaluation
\* reaches, unless an exception ended the evaluation before; no operator
\* outside the table is ever applied, and none of the subtree under the
\* refused operator: the operators applied are those to the left of the path to
\* it, so the check comes before the evaluation of the children.
C7_OperatorGate ==
  (pc = "done" /\ node # NoNode)
    => /\ \A i \in 1..Len(applied) : applied[i] \in operators
       /\ (FirstUnsupported(node) # ""
             => /\ IsPrefix(applied, OpsBefore(node))
                /\ \/ /\ result = UnsupportedOperation(FirstUnsupported(node))
                      /\ applied = OpsBefore(node)
                   \/ (IsEarlierFailure(result) /\ applied # <<>>)
                   \/ (IsEarlierFailure(result) /\ result[3] = "Unsupported node type: "))
       /\ (node.kids[1].type \in {"BinOp", "UnaryOp"} /\ node.kids[1].op \notin operators
             => /\ result = UnsupportedOperation(node.kids[1].op)
                /\ applied = <<>>)

\* (2/0)//2: the floor division is refused before 2/0 is evaluated.
C7_Witness ==
  /\ pc = "done"
  /\ expression = <<"(", "2", "/", "0", ")", "/", "/", "2">>
  /\ result = UnsupportedOperation("FloorDiv")
  /\ applied = <<>>

\* The operator tags of a tree.
RECURSIVE OpsOf(_)
OpsOf(nd) ==
  (IF nd.type \in {"BinOp", "UnaryOp"} THEN {nd.op} ELSE {})
    \cup UNION {OpsOf(nd.kids[i]) : i \in 1..Len(nd.kids)}

\* node holds a tree and eval_expr has been entered with it, or is about to be.
HandedToEval == pc \in {"eval", "format", "done"} /\ node # NoNode

\* C8 as claimed: every operator of a tree handed to eval_expr is in the table.
C8_TreeHasOnlyAllowedOperators == HandedToEval => OpsOf(node) \subseteq operators

\* C8 as amended: the operators of a tree handed to eval_expr are those of the
\* table, the floor division and the unary plus; a tree with one of the last
\* two is not refused by the parser, and eval_expr ends with an exception whose
\* message is returned: the result is never a number.
C8_DisallowedOperatorsFailInEval ==
  HandedToEval
    => /\ OpsOf(node) \subseteq operators \cup {"FloorDiv", "UAdd"}
       /\ (~(OpsOf(node) \subseteq operators)
             => /\ pc # "format"
                /\ (pc = "done" => /\ IsErrorText(result)
                                   /\ result[2] = " Error evaluating expression: "
                                   /\ steps = <<"normalize", "whitelist", "parse", "eval">>))

\* 2//3 has been parsed, handed to eval_expr and refused there.
C8_Witness ==
  /\ pc = "done"
  /\ expression = <<"2", "/", "/", "3">>
  /\ node.kids[1].op = "FloorDiv"
  /\ result = UnsupportedOperation("FloorDiv")

(***************************************************************************)
(* Properties of main().                                                   *)
(***************************************************************************)
StatisticsCount == Cardinality({i \in 1..Len(printed) : printed[i] = "Statistics:"})

\* What holds of the loop in every state once the setup has succeeded.
LoopSafe ==
  mpc \in {"loop", "stats", "done"}
    => /\ Len(outcomes) <= NumQuestions
       /\ \A i \in 1..Len(outcomes) : outcomes[i].q = i
       /\ qi = Len(outcomes) + 1
       /\ \A i \in 1..(Len(outcomes) - 1) :
            "AuthenticationError" \notin Superclasses(outcomes[i].o)
       /\ \A i \in 1..Len(outcomes) :
            outcomes[i].o # "ok" => outcomes[i].line \in Range(HandlerLine)
       /\ (mpc = "loop"
             => \A i \in 1..Len(outcomes) :
                  "AuthenticationError" \notin Superclasses(outcomes[i].o))
       /\ (mpc \in {"stats", "done"}
             => \/ Len(outcomes) = NumQuestions
                \/ outcomes[Len(outcomes)].o = "AuthenticationError")
       /\ exitStatus # 1
       /\ StatisticsCount = (IF mpc = "done" THEN 1 ELSE 0)
       /\ (mpc = "done" => printed[Len(printed)] = "Statistics:")

C10_OwnHandler ==
  \A i \in 1..Len(outcomes) :
    \A h \in 1..(Len(HandlerChain) - 1) :
      outcomes[i].o = HandlerChain[h] => outcomes[i].line = HandlerLine[h]

====
